---- MODULE Spec2Model ----
(***************************************************************************)
(* State-machine model of scripts/export_supabase_data.py: one run of the  *)
(* raw-table export (configuration, company lookup, three table fetches,   *)
(* project filter, two inner merges, user_name / duration derivation,      *)
(* group-by, the two named-project groups with the separator row, the CSV  *)
(* and summary writes, and the top-level except handler).                  *)
(*                                                                         *)
(* Data representation.  A DataFrame is a record                           *)
(*   [columns |-> sequence of column names, rows |-> sequence of rows]     *)
(* and a row is a function from column names to cell values.  Text cells   *)
(* (titles, names, emails) are sequences of tokens, so that concatenation  *)
(* and str.strip() are computed; None is the null text cell and NumNaN the *)
(* null numeric cell.                                                      *)
(***************************************************************************)
EXTENDS Integers, Sequences, FiniteSets, TLC

VARIABLES
    env,              \* os.environ: the variables present and TARGET_PROJECTS
    pc,               \* position of the script
    exit_code,        \* process exit status, NotExited while running
    io,               \* log of the filesystem operations performed by the run
    fetches,          \* number of requests.get calls made so far
    target_projects,  \* line 11
    company_id,       \* line 63
    time_entries_df,  \* line 68
    projects_df,      \* line 77
    users_df,         \* line 86
    projects_filtered,\* lines 137 / 140
    merged_df,        \* lines 154-205 (with user_name and duration_minutes)
    grouped,          \* lines 220-258
    dept_health,      \* lines 261, 265
    coerco,           \* lines 262, 266
    final_df,         \* lines 269-297
    failed_check,     \* which validation check ended the run, "" if none
    exports_dir       \* whether the directory exports/ exists

vars == <<env, pc, exit_code, io, fetches, target_projects, company_id,
          time_entries_df, projects_df, users_df, projects_filtered,
          merged_df, grouped, dept_health, coerco, final_df, failed_check,
          exports_dir>>

----------------------------------------------------------------------------
(* Bounds of the model *)

\* largest number of rows of the fetched TimeEntry table
MaxEntries == 2

----------------------------------------------------------------------------
(* Text values *)

None == <<"NaN">>
NumNaN == 0 - 1
NoColumn == "None"
NotExited == 0 - 1

Space == " "
EmptyStr == << >>

\* tokens in ascending string order; a text value is a sequence of tokens
TokenOrder ==
    <<" ", "--- SEPARATOR ---", "Alpha", "Ann", "Bob", "Coerco",
      "Department of Health (Government of Western Australia)",
      "Lee", "NaN", "Unknown", "User", "ann@x", "bob@x">>

TokenRank(t) == CHOOSE i \in 1..Len(TokenOrder) : TokenOrder[i] = t

RECURSIVE StrLess(_, _)
StrLess(a, b) ==
    IF b = << >> THEN FALSE
    ELSE IF a = << >> THEN TRUE
    ELSE IF Head(a) # Head(b) THEN TokenRank(Head(a)) < TokenRank(Head(b))
    ELSE StrLess(Tail(a), Tail(b))

RECURSIVE LStrip(_)
LStrip(s) == IF s # << >> /\ Head(s) = Space THEN LStrip(Tail(s)) ELSE s

RECURSIVE RStrip(_)
RStrip(s) ==
    IF s # << >> /\ s[Len(s)] = Space THEN RStrip(SubSeq(s, 1, Len(s) - 1)) ELSE s

\* str.strip()
Strip(s) == RStrip(LStrip(s))

\* Series.fillna("")
FillNaStr(v) == IF v = None THEN EmptyStr ELSE v

DeptHealthTitle == <<"Department of Health (Government of Western Australia)">>
CoercoTitle == <<"Coerco">>
SeparatorTitle == <<"--- SEPARATOR ---">>
UnknownUser == <<"Unknown", " ", "User">>

----------------------------------------------------------------------------
(* DataFrames *)

EmptyFrame == [columns |-> << >>, rows |-> << >>]

\* DataFrame.empty
IsEmpty(df) == Len(df.rows) = 0

ColSet(df) == {df.columns[i] : i \in 1..Len(df.columns)}

\* str.lower() on the column names that occur in the model
Lower(name) ==
    CASE name = "Email" -> "email"
      [] name = "EMAIL" -> "email"
      [] name = "firstName" -> "firstname"
      [] name = "lastName" -> "lastname"
      [] name = "projectId" -> "projectid"
      [] name = "userId" -> "userid"
      [] name = "entryDate" -> "entrydate"
      [] name = "startTime" -> "starttime"
      [] name = "endTime" -> "endtime"
      [] name = "Title" -> "title"
      [] OTHER -> name

SetMin(S) == CHOOSE x \in S : \A y \in S : x <= y

\* find_column without the lower-casing: a name matches only as spelled
find_column_exact(df, possible_names) ==
    LET hits == {n \in 1..Len(possible_names) :
                    possible_names[n] \in ColSet(df)}
    IN  IF hits = {} THEN NoColumn ELSE possible_names[SetMin(hits)]

\* lines 106-111
find_column(df, possible_names) ==
    LET df_columns == [i \in 1..Len(df.columns) |-> Lower(df.columns[i])]
        hits == {n \in 1..Len(possible_names) :
                    \E i \in 1..Len(df_columns) :
                        df_columns[i] = Lower(possible_names[n])}
    IN  IF hits = {} THEN NoColumn
        ELSE LET name == possible_names[SetMin(hits)]
                 idx == SetMin({i \in 1..Len(df_columns) :
                                    df_columns[i] = Lower(name)})
             IN  df.columns[idx]

\* truth value of a find_column result in an if
Found(col) == col # NoColumn

\* df[cols]: column selection; KeyError when a name is no column of df
SelectRaises(df, cols) == \E i \in 1..Len(cols) : cols[i] \notin ColSet(df)

Select(df, cols) ==
    [columns |-> cols,
     rows |-> [i \in 1..Len(df.rows) |->
                  [c \in {cols[j] : j \in 1..Len(cols)} |-> df.rows[i][c]]]]

\* DataFrame.merge(right, left_on=..., right_on=..., how="inner"):
\* KeyError when a key is no column of its frame
MergeRaises(left, right, left_on, right_on) ==
    left_on \notin ColSet(left) \/ right_on \notin ColSet(right)

\* the rows of an inner merge for the left rows i..Len(left.rows), in the
\* order of the left keys; columns present on both sides get _x / _y
RECURSIVE MergeRows(_, _, _, _, _)
MergeRows(left, right, left_on, right_on, i) ==
    IF i > Len(left.rows) THEN << >>
    ELSE LET both == ColSet(left) \cap ColSet(right)
             l == left.rows[i]
             hits == SelectSeq(right.rows, LAMBDA r : r[right_on] = l[left_on])
             lcols == {IF c \in both THEN c \o "_x" ELSE c : c \in ColSet(left)}
             rcols == {IF c \in both THEN c \o "_y" ELSE c : c \in ColSet(right)}
             Join(r) ==
                 [c \in lcols \cup rcols |->
                     IF c \in lcols
                     THEN l[CHOOSE lc \in ColSet(left) :
                               c = IF lc \in both THEN lc \o "_x" ELSE lc]
                     ELSE r[CHOOSE rc \in ColSet(right) :
                               c = IF rc \in both THEN rc \o "_y" ELSE rc]]
         IN  [k \in 1..Len(hits) |-> Join(hits[k])]
             \o MergeRows(left, right, left_on, right_on, i + 1)

\* merge(how="left"): a left row without a match is kept, its right-hand
\* cells null
RECURSIVE MergeLeftRows(_, _, _, _, _)
MergeLeftRows(left, right, left_on, right_on, i) ==
    IF i > Len(left.rows) THEN << >>
    ELSE LET both == ColSet(left) \cap ColSet(right)
             l == left.rows[i]
             hits == SelectSeq(right.rows, LAMBDA r : r[right_on] = l[left_on])
             lcols == {IF c \in both THEN c \o "_x" ELSE c : c \in ColSet(left)}
             rcols == {IF c \in both THEN c \o "_y" ELSE c : c \in ColSet(right)}
             Join(r) ==
                 [c \in lcols \cup rcols |->
                     IF c \in lcols
                     THEN l[CHOOSE lc \in ColSet(left) :
                               c = IF lc \in both THEN lc \o "_x" ELSE lc]
                     ELSE r[CHOOSE rc \in ColSet(right) :
                               c = IF rc \in both THEN rc \o "_y" ELSE rc]]
             Unmatched ==
                 [c \in lcols \cup rcols |->
                     IF c \in lcols
                     THEN l[CHOOSE lc \in ColSet(left) :
                               c = IF lc \in both THEN lc \o "_x" ELSE lc]
                     ELSE None]
         IN  (IF hits = << >> THEN <<Unmatched>>
              ELSE [k \in 1..Len(hits) |-> Join(hits[k])])
             \o MergeLeftRows(left, right, left_on, right_on, i + 1)

MergeLeft(left, right, left_on, right_on) ==
    LET both == ColSet(left) \cap ColSet(right)
    IN  [columns |->
            [i \in 1..Len(left.columns) |->
                IF left.columns[i] \in both THEN left.columns[i] \o "_x"
                ELSE left.columns[i]]
            \o [i \in 1..Len(right.columns) |->
                IF right.columns[i] \in both THEN right.columns[i] \o "_y"
                ELSE right.columns[i]],
         rows |-> MergeLeftRows(left, right, left_on, right_on, 1)]

Merge(left, right, left_on, right_on) ==
    LET both == ColSet(left) \cap ColSet(right)
    IN  [columns |->
            [i \in 1..Len(left.columns) |->
                IF left.columns[i] \in both THEN left.columns[i] \o "_x"
                ELSE left.columns[i]]
            \o [i \in 1..Len(right.columns) |->
                IF right.columns[i] \in both THEN right.columns[i] \o "_y"
                ELSE right.columns[i]],
         rows |-> MergeRows(left, right, left_on, right_on, 1)]

\* df[name] = value computed per row (a new column, or an overwritten one)
WithColumn(df, name, Value(_)) ==
    [columns |-> IF name \in ColSet(df) THEN df.columns
                 ELSE Append(df.columns, name),
     rows |-> [i \in 1..Len(df.rows) |->
                  [c \in ColSet(df) \cup {name} |->
                      IF c = name THEN Value(df.rows[i]) ELSE df.rows[i][c]]]]

----------------------------------------------------------------------------
(* Derived columns, lines 182-206 *)

\* lines 183-189: the user_name cell of one merged row
UserName(row, first_col, last_col, email_col) ==
    IF Found(first_col) /\ Found(last_col)
    THEN Strip(FillNaStr(row[first_col]) \o <<Space>> \o FillNaStr(row[last_col]))
    ELSE IF Found(email_col) THEN row[email_col] ELSE UnknownUser

\* lines 192-205: the duration_minutes cell of one merged row; instants are
\* counted in minutes, a null instant gives a null difference
DurationMinutes(row, duration_col, start_col, end_col) ==
    IF Found(duration_col) /\ duration_col \in DOMAIN row
    THEN IF row[duration_col] = NumNaN THEN 0 ELSE row[duration_col]
    ELSE IF Found(start_col) /\ Found(end_col)
         THEN IF row[start_col] = NumNaN \/ row[end_col] = NumNaN THEN NumNaN
              ELSE row[end_col] - row[start_col]
         ELSE 0

----------------------------------------------------------------------------
(* Group-by and aggregation, lines 208-258 *)

\* lines 209-211
GroupCols(title_col, email_col) ==
    IF Found(email_col) THEN <<title_col, "user_name", email_col>>
    ELSE <<title_col, "user_name">>

GroupKey(row, group_cols) == [i \in 1..Len(group_cols) |-> row[group_cols[i]]]

\* groupby(dropna=True): a row with a null key cell belongs to no group
HasNullKey(row, group_cols) ==
    \E i \in 1..Len(group_cols) : row[group_cols[i]] = None

RECURSIVE KeyLess(_, _)
KeyLess(k1, k2) ==
    IF k1 = << >> \/ k2 = << >> THEN FALSE
    ELSE IF Head(k1) # Head(k2) THEN StrLess(Head(k1), Head(k2))
    ELSE KeyLess(Tail(k1), Tail(k2))

\* groupby(sort=True): the group keys in ascending order
RECURSIVE SortedKeys(_)
SortedKeys(keys) ==
    IF keys = {} THEN << >>
    ELSE LET first == CHOOSE k \in keys : \A o \in keys \ {k} : KeyLess(k, o)
         IN  <<first>> \o SortedKeys(keys \ {first})

RECURSIVE SumSkipNa(_, _)
SumSkipNa(rows, col) ==
    IF rows = << >> THEN 0
    ELSE (IF Head(rows)[col] = NumNaN THEN 0 ELSE Head(rows)[col])
         + SumSkipNa(Tail(rows), col)

\* the "size" aggregate: every row of the group, null or not
CountAll(rows, col) == Len(rows)

CountNotNa(rows, col) == Len(SelectSeq(rows, LAMBDA r : r[col] # NumNaN))

MinSkipNa(rows, col) ==
    LET vals == {rows[i][col] : i \in 1..Len(rows)} \ {NumNaN}
    IN  IF vals = {} THEN NumNaN ELSE CHOOSE v \in vals : \A w \in vals : v <= w

MaxSkipNa(rows, col) ==
    LET vals == {rows[i][col] : i \in 1..Len(rows)} \ {NumNaN}
    IN  IF vals = {} THEN NumNaN ELSE CHOOSE v \in vals : \A w \in vals : v >= w

\* lines 213-232: groupby(group_cols).agg(agg_dict).reset_index() with the
\* flattened column names
Aggregate(df, group_cols, date_col) ==
    LET kept == SelectSeq(df.rows, LAMBDA r : ~HasNullKey(r, group_cols))
        keys == SortedKeys({GroupKey(kept[i], group_cols) : i \in 1..Len(kept)})
        agg_cols == <<"duration_minutes_sum", "duration_minutes_count">>
                    \o (IF Found(date_col)
                        THEN <<date_col \o "_min", date_col \o "_max">>
                        ELSE << >>)
        cols == group_cols \o agg_cols
        Members(k) == SelectSeq(kept, LAMBDA r : GroupKey(r, group_cols) = k)
        Cell(k, c) ==
            IF \E i \in 1..Len(group_cols) : group_cols[i] = c
            THEN k[CHOOSE i \in 1..Len(group_cols) : group_cols[i] = c]
            ELSE IF c = "duration_minutes_sum"
                 THEN SumSkipNa(Members(k), "duration_minutes")
            ELSE IF c = "duration_minutes_count"
                 THEN CountNotNa(Members(k), "duration_minutes")
            ELSE IF c = date_col \o "_min" THEN MinSkipNa(Members(k), date_col)
            ELSE MaxSkipNa(Members(k), date_col)
    IN  [columns |-> cols,
         rows |-> [n \in 1..Len(keys) |->
                      [c \in {cols[j] : j \in 1..Len(cols)} |-> Cell(keys[n], c)]]]

\* lines 235-247
ColumnMapping(title_col, email_col, date_col) ==
    LET base == (title_col :> "project") @@ ("user_name" :> "user_name")
                @@ ("duration_minutes_sum" :> "total_duration_raw")
                @@ ("duration_minutes_count" :> "total_entries")
        email == IF Found(email_col) THEN (email_col :> "user_email") ELSE << >>
        dates == IF Found(date_col)
                 THEN (date_col \o "_min" :> "first_entry_date")
                      @@ (date_col \o "_max" :> "last_entry_date")
                 ELSE << >>
    IN  dates @@ email @@ base

\* line 249: DataFrame.rename(columns=mapping)
Rename(df, mapping) ==
    LET New(c) == IF c \in DOMAIN mapping THEN mapping[c] ELSE c
    IN  [columns |-> [i \in 1..Len(df.columns) |-> New(df.columns[i])],
         rows |-> [n \in 1..Len(df.rows) |->
                      [c \in {New(o) : o \in ColSet(df)} |->
                          df.rows[n][CHOOSE o \in ColSet(df) : New(o) = c]]]]

required_cols ==
    <<"project", "user_name", "user_email", "total_duration_raw", "total_hours",
      "total_entries", "first_entry_date", "last_entry_date">>

\* lines 255-258: one missing required column added with its default
AddDefault(df, col) ==
    IF col \in ColSet(df) THEN df
    ELSE IF col \in {"user_email", "first_entry_date", "last_entry_date"}
         THEN WithColumn(df, col, LAMBDA r : EmptyStr)
         ELSE WithColumn(df, col, LAMBDA r : 0)

RECURSIVE AddMissing(_, _)
AddMissing(df, cols) ==
    IF cols = << >> THEN df
    ELSE AddMissing(AddDefault(df, Head(cols)), Tail(cols))

\* lines 208-258
Grouped(df, title_col, email_col, date_col) ==
    LET agg == Aggregate(df, GroupCols(title_col, email_col), date_col)
        renamed == Rename(agg, ColumnMapping(title_col, email_col, date_col))
        hours == WithColumn(renamed, "total_hours",
                            LAMBDA r : r["total_duration_raw"])
    IN  AddMissing(hours, required_cols)

----------------------------------------------------------------------------
(* The two named groups and the final table, lines 260-297 *)

\* grouped[grouped["project"] == title]
ProjectRows(df, title) ==
    [columns |-> df.columns,
     rows |-> SelectSeq(df.rows, LAMBDA r : r["project"] = title)]

\* the rows with the first largest cell of col moved to the front, repeatedly
RECURSIVE SortRowsDesc(_, _)
SortRowsDesc(rows, col) ==
    IF rows = << >> THEN << >>
    ELSE LET top == CHOOSE i \in 1..Len(rows) :
                        /\ \A j \in 1..Len(rows) : rows[j][col] <= rows[i][col]
                        /\ \A j \in 1..(i - 1) : rows[j][col] < rows[i][col]
         IN  <<rows[top]>>
             \o SortRowsDesc(SubSeq(rows, 1, top - 1)
                             \o SubSeq(rows, top + 1, Len(rows)), col)

RECURSIVE Reverse(_)
Reverse(seq) == IF seq = << >> THEN << >> ELSE Append(Reverse(Tail(seq)), Head(seq))

\* sort_values("total_hours") with the default ascending order
SortValuesAsc(df) ==
    [columns |-> df.columns, rows |-> Reverse(SortRowsDesc(df.rows, "total_hours"))]

\* lines 265-266: sort_values("total_hours", ascending=False)
SortValuesDesc(df) ==
    [columns |-> df.columns, rows |-> SortRowsDesc(df.rows, "total_hours")]

\* lines 276-285
separator_row ==
    [c \in {required_cols[i] : i \in 1..Len(required_cols)} |->
        IF c = "project" THEN SeparatorTitle
        ELSE IF c \in {"user_name", "user_email"} THEN EmptyStr
        ELSE NumNaN]

\* lines 269-290
FinalRows(dept, coer) == dept.rows \o <<separator_row>> \o coer.rows

\* lines 293-297
FinalFrame(dept, coer) ==
    Select([columns |-> required_cols, rows |-> FinalRows(dept, coer)],
           required_cols)

----------------------------------------------------------------------------
(* Inputs: the environment and the backend's responses *)

\* line 10, the default of COMPANY_NAME
company_name == "Timesheet App (Production)"

Comma == ","

\* str.split(","): the fields between the commas, one field for a value
\* without comma (the empty value included)
RECURSIVE Split(_)
Split(value) ==
    IF \A i \in 1..Len(value) : value[i] # Comma THEN <<value>>
    ELSE LET c == SetMin({i \in 1..Len(value) : value[i] = Comma})
         IN  <<SubSeq(value, 1, c - 1)>>
             \o Split(SubSeq(value, c + 1, Len(value)))

\* values of TARGET_PROJECTS ("" when unset, line 11)
TargetValues ==
    {EmptyStr,
     CoercoTitle,
     DeptHealthTitle \o <<Comma>> \o CoercoTitle,
     <<"Alpha">>}

Environments ==
    [SUPABASE_URL : BOOLEAN, SUPABASE_KEY : BOOLEAN, TARGET_PROJECTS : TargetValues]

RECURSIVE Ascending(_)
Ascending(S) ==
    IF S = {} THEN << >> ELSE <<SetMin(S)>> \o Ascending(S \ {SetMin(S)})

\* a table with the rows row(id), id in ids, in ascending id order
Table(columns, ids, Row(_)) ==
    [columns |-> columns,
     rows |-> [i \in 1..Cardinality(ids) |-> Row(Ascending(ids)[i])]]

\* fetch_data("Company", ...), lines 21-50 and 55: no row (also on an HTTP or
\* transport error), or the id column, of integers (dtype int64, the digits
\* kept as text) or of strings
CompanyResponses ==
    {[columns |-> << >>, rows |-> << >>, dtype |-> "object"],
     [columns |-> <<"id">>, rows |-> <<[c \in {"id"} |-> <<"7">>]>>,
      dtype |-> "int64"],
     [columns |-> <<"id">>, rows |-> <<[c \in {"id"} |-> <<"c7">>]>>,
      dtype |-> "object"]}

ProjectIds == {1, 2}
UserIds == {1, 2}
Titles == {DeptHealthTitle, CoercoTitle, <<"Alpha">>}

\* Project tables: primary key id, a title per row
ProjectTables(title_column) ==
    UNION {{Table(<<"id", title_column>>, ids,
                  LAMBDA n : ("id" :> n) @@ (title_column :> t[n])) :
                t \in [ids -> Titles]} :
           ids \in SUBSET ProjectIds \ {{}}}


\* the display fields a user row can carry
AnnLee == [firstName |-> <<"Ann">>, lastName |-> <<"Lee">>, email |-> <<"ann@x">>]
BobOnly == [firstName |-> <<"Bob">>, lastName |-> None, email |-> <<"bob@x">>]
AnnNoMail == [firstName |-> <<"Ann">>, lastName |-> <<"Lee">>, email |-> None]
Persons == {AnnLee, BobOnly, AnnNoMail}

\* the column sets a User table can have, beside other spellings of a name
NamedUsers == <<"id", "firstName", "lastName", "email">>
MailUsers == <<"id", "Email">>
FirstMailUsers == <<"id", "firstName", "email">>
BareUsers == <<"id", "firstName">>
UserSchemas == {NamedUsers, MailUsers, FirstMailUsers, BareUsers}

UserRow(columns, n, person) ==
    [c \in {columns[i] : i \in 1..Len(columns)} |->
        IF c = "id" THEN n
        ELSE IF Lower(c) = "email" THEN person.email
        ELSE IF c = "firstName" THEN person.firstName
        ELSE person.lastName]

\* User tables: primary key id, the display fields of the schema
UserTables(schemas, persons) ==
    UNION {UNION {{Table(columns, ids, LAMBDA n : UserRow(columns, n, who[n])) :
                      who \in [ids -> persons]} :
                  ids \in SUBSET UserIds \ {{}}} :
           columns \in schemas}

Minutes == {1, 2}

\* the column sets a TimeEntry table can have
StoredDuration == <<"id", "projectId", "userId", "duration", "entryDate">>
StartEnd == <<"id", "projectId", "userId", "startTime", "endTime", "created_at">>
NoDuration == <<"id", "projectId", "userId">>

\* one time entry: the n-th row, logged at instant n, lasting m minutes; a
\* null m is a null duration, or a null end instant
TimeEntryRow(columns, n, e) ==
    [c \in {columns[i] : i \in 1..Len(columns)} |->
        CASE c = "id" -> n
          [] c = "projectId" -> e[1]
          [] c = "userId" -> e[2]
          [] c = "duration" -> e[3]
          [] c = "startTime" -> n
          [] c = "endTime" -> IF e[3] = NumNaN THEN NumNaN ELSE n + e[3]
          [] OTHER -> n]

\* TimeEntry tables of 1..MaxEntries rows
TimeEntryTables(schemas, minutes) ==
    UNION {UNION {{[columns |-> columns,
                    rows |-> [n \in 1..len |-> TimeEntryRow(columns, n, es[n])]] :
                      es \in [1..len -> ProjectIds \X UserIds \X minutes]} :
                  len \in 1..MaxEntries} :
           columns \in schemas}

----------------------------------------------------------------------------
(* Column mapping, lines 113-127 *)

project_id_col == find_column(projects_df, <<"id">>)
project_title_col == find_column(projects_df, <<"title">>)
user_id_col == find_column(users_df, <<"id">>)
user_first_name_col == find_column(users_df, <<"firstName">>)
user_last_name_col == find_column(users_df, <<"lastName">>)
user_email_col == find_column(users_df, <<"email">>)
time_project_id_col == find_column(time_entries_df, <<"projectId">>)
time_user_id_col == find_column(time_entries_df, <<"userId">>)
time_duration_col == find_column(time_entries_df, <<"duration">>)
time_entry_date_col == find_column(time_entries_df, <<"entryDate", "created_at">>)
\* lines 196-197
start_col == find_column(time_entries_df, <<"startTime">>)
end_col == find_column(time_entries_df, <<"endTime">>)

----------------------------------------------------------------------------
(* The run *)

Frames == <<time_entries_df, projects_df, users_df>>
Derived == <<projects_filtered, merged_df, grouped, dept_health, coerco, final_df>>

ErrorFile == "exports/error.txt"
CsvFile == "exports/project_time_report.csv"
SummaryFile == "exports/export_summary.json"

\* open(file, "w") and the write: FileNotFoundError when exports/ is missing
Written(file, content) ==
    [op |-> "open_w", file |-> file,
     result |-> IF exports_dir THEN "written" ELSE "raised", content |-> content]

\* a validation check failed: write exports/error.txt and exit(1), lines
\* 58-61, 95-98, 145-149, 175-178; the open raises inside the try block when
\* exports/ is missing
FailCheck(check, message) ==
    /\ failed_check' = check
    /\ io' = Append(io, Written(ErrorFile, message))
    /\ IF exports_dir
       THEN pc' = "exited" /\ exit_code' = 1
       ELSE pc' = "except" /\ exit_code' = exit_code

\* an exception raised inside the try block, caught at line 317
Raise ==
    /\ pc' = "except"
    /\ UNCHANGED <<exit_code, io, failed_check>>

Init ==
    /\ env \in Environments
    /\ exports_dir \in BOOLEAN
    /\ pc = "config"
    /\ exit_code = NotExited
    /\ io = << >>
    /\ fetches = 0
    /\ target_projects = << >>
    /\ company_id = [value |-> None, numpy |-> FALSE]
    /\ time_entries_df = EmptyFrame
    /\ projects_df = EmptyFrame
    /\ users_df = EmptyFrame
    /\ projects_filtered = EmptyFrame
    /\ merged_df = EmptyFrame
    /\ grouped = EmptyFrame
    /\ dept_health = EmptyFrame
    /\ coerco = EmptyFrame
    /\ final_df = EmptyFrame
    /\ failed_check = ""

\* lines 8-11: os.environ[...] raises KeyError outside the try block, the
\* interpreter prints the traceback and exits with status 1
LoadConfig ==
    /\ pc = "config"
    /\ IF env.SUPABASE_URL /\ env.SUPABASE_KEY
       THEN /\ target_projects' = Split(env.TARGET_PROJECTS)
            /\ pc' = "company"
            /\ exit_code' = exit_code
       ELSE /\ pc' = "exited"
            /\ exit_code' = 1
            /\ target_projects' = target_projects
    /\ UNCHANGED <<env, io, fetches, company_id, Frames, Derived, failed_check,
                   exports_dir>>

\* lines 53-64
FetchCompany ==
    /\ pc = "company"
    /\ \E company_df \in CompanyResponses :
          /\ fetches' = fetches + 1
          /\ IF IsEmpty(company_df) \/ "id" \notin ColSet(company_df)
             THEN /\ FailCheck("company",
                               <<"Company '", company_name, "' not found">>)
                  /\ company_id' = company_id
             ELSE /\ company_id' = [value |-> company_df.rows[1]["id"],
                                    numpy |-> company_df.dtype = "int64"]
                  /\ pc' = "fetch"
                  /\ UNCHANGED <<exit_code, io, failed_check>>
    /\ UNCHANGED <<env, target_projects, Frames, Derived, exports_dir>>

\* lines 66-98: the three fetches, each giving the table or, on no data or
\* an HTTP or transport error, an empty frame
FetchTables(TimeEntries, Projects, Users) ==
    /\ pc = "fetch"
    /\ \E t \in TimeEntries \cup {EmptyFrame},
          p \in Projects \cup {EmptyFrame},
          u \in Users \cup {EmptyFrame} :
          /\ fetches' = fetches + 3
          /\ time_entries_df' = t
          /\ projects_df' = p
          /\ users_df' = u
          /\ IF IsEmpty(t) \/ IsEmpty(p) \/ IsEmpty(u)
             THEN FailCheck("tables", <<"One or more required tables are empty">>)
             ELSE /\ pc' = "filter"
                  /\ UNCHANGED <<exit_code, io, failed_check>>
    /\ UNCHANGED <<env, target_projects, company_id, Derived, exports_dir>>

\* line 135: not target_projects or not target_projects[0]
NoTargets == target_projects = << >> \/ target_projects[1] = EmptyStr

\* Series.isin(values) as a row filter
IsIn(df, col, values) ==
    [columns |-> df.columns,
     rows |-> SelectSeq(df.rows,
                        LAMBDA r : \E i \in 1..Len(values) : r[col] = values[i])]

\* the project table with TARGET_PROJECTS left unapplied
UnfilteredProjects == projects_df

\* lines 134-142
FilteredProjects ==
    IF NoTargets THEN projects_df
    ELSE IsIn(projects_df, project_title_col, target_projects)

\* lines 134-151
FilterProjects ==
    /\ pc = "filter"
    /\ IF ~NoTargets /\ project_title_col \notin ColSet(projects_df)
       THEN Raise /\ projects_filtered' = projects_filtered
       ELSE /\ projects_filtered' = FilteredProjects
            /\ IF IsEmpty(FilteredProjects)
               THEN FailCheck("filter", <<"Target projects not found. Available: ">>)
               ELSE pc' = "merge" /\ UNCHANGED <<exit_code, io, failed_check>>
    /\ UNCHANGED <<env, fetches, target_projects, company_id, Frames, merged_df,
                   grouped, dept_health, coerco, final_df, exports_dir>>

\* lines 162-165
user_cols_to_merge ==
    <<user_id_col>>
    \o (IF Found(user_first_name_col) THEN <<user_first_name_col>> ELSE << >>)
    \o (IF Found(user_last_name_col) THEN <<user_last_name_col>> ELSE << >>)
    \o (IF Found(user_email_col) THEN <<user_email_col>> ELSE << >>)

\* lines 154-159
MergedWithProjects ==
    Merge(time_entries_df,
          Select(projects_filtered, <<project_id_col, project_title_col>>),
          time_project_id_col, project_id_col)

\* lines 167-172
MergedWithUsers ==
    Merge(MergedWithProjects, Select(users_df, user_cols_to_merge),
          time_user_id_col, user_id_col)

\* a KeyError in lines 154-172: a selected column or a merge key is missing
MergeTablesRaises ==
    \/ SelectRaises(projects_filtered, <<project_id_col, project_title_col>>)
    \/ MergeRaises(time_entries_df,
                   Select(projects_filtered, <<project_id_col, project_title_col>>),
                   time_project_id_col, project_id_col)
    \/ SelectRaises(users_df, user_cols_to_merge)
    \/ MergeRaises(MergedWithProjects, Select(users_df, user_cols_to_merge),
                   time_user_id_col, user_id_col)

\* lines 153-180
MergeTables ==
    /\ pc = "merge"
    /\ IF MergeTablesRaises
       THEN Raise /\ merged_df' = merged_df
       ELSE /\ merged_df' = MergedWithUsers
            /\ IF IsEmpty(MergedWithUsers)
               THEN FailCheck("merge", <<"No data after merging tables">>)
               ELSE pc' = "report" /\ UNCHANGED <<exit_code, io, failed_check>>
    /\ UNCHANGED <<env, fetches, target_projects, company_id, Frames,
                   projects_filtered, grouped, dept_health, coerco, final_df,
                   exports_dir>>

\* lines 182-205: merged_df with the user_name and duration_minutes columns
WithDerivedColumns(df) ==
    WithColumn(
        WithColumn(df, "user_name",
                   LAMBDA r : UserName(r, user_first_name_col, user_last_name_col,
                                       user_email_col)),
        "duration_minutes",
        LAMBDA r : DurationMinutes(r, time_duration_col, start_col, end_col))

\* lines 182-297
BuildReport ==
    /\ pc = "report"
    /\ LET derived == WithDerivedColumns(merged_df)
           g == Grouped(derived, project_title_col, user_email_col,
                        time_entry_date_col)
           dept == SortValuesDesc(ProjectRows(g, DeptHealthTitle))
           coer == SortValuesDesc(ProjectRows(g, CoercoTitle))
       IN  /\ merged_df' = derived
           /\ grouped' = g
           /\ dept_health' = dept
           /\ coerco' = coer
           /\ final_df' = FinalFrame(dept, coer)
    /\ pc' = "write_csv"
    /\ UNCHANGED <<env, exit_code, io, fetches, target_projects, company_id,
                   Frames, projects_filtered, failed_check, exports_dir>>

\* lines 299-301: to_csv raises OSError when exports/ is missing
WriteCsv ==
    /\ pc = "write_csv"
    /\ io' = Append(io, Written(CsvFile, final_df.rows))
    /\ pc' = IF exports_dir THEN "summary" ELSE "except"
    /\ UNCHANGED <<env, exit_code, fetches, target_projects, company_id, Frames,
                   Derived, failed_check, exports_dir>>

\* lines 304-310, without the timestamp
summary ==
    [company_id |-> company_id.value,
     total_rows |-> Len(final_df.rows),
     dept_health_users |-> Len(dept_health.rows),
     coerco_users |-> Len(coerco.rows)]

\* lines 303-315: json.dump raises TypeError on a numpy integer, after the
\* file was opened for writing; otherwise exit(0)
WriteSummary ==
    /\ pc = "summary"
    /\ IF ~exports_dir
       THEN /\ io' = Append(io, Written(SummaryFile, summary))
            /\ pc' = "except"
            /\ exit_code' = exit_code
       ELSE IF company_id.numpy
       THEN /\ io' = Append(io, [op |-> "open_w", file |-> SummaryFile,
                                 result |-> "truncated", content |-> summary])
            /\ pc' = "except"
            /\ exit_code' = exit_code
       ELSE /\ io' = Append(io, Written(SummaryFile, summary))
            /\ pc' = "exited"
            /\ exit_code' = 0
    /\ UNCHANGED <<env, fetches, target_projects, company_id, Frames, Derived,
                   failed_check, exports_dir>>

\* lines 317-323: the handler's own open raises when exports/ is missing,
\* and the uncaught exception ends the process with status 1
ExceptHandler ==
    /\ pc = "except"
    /\ io' = Append(io, Written(ErrorFile, <<"Error: ">>))
    /\ pc' = "exited"
    /\ exit_code' = 1
    /\ UNCHANGED <<env, fetches, target_projects, company_id, Frames, Derived,
                   failed_check, exports_dir>>

\* the tables a run can fetch
RunTimeEntries == TimeEntryTables({StoredDuration}, {1, NumNaN})
RunProjects == ProjectTables("title") \cup ProjectTables("name")
RunUsers == UserTables({NamedUsers}, {AnnLee})

Next ==
    \/ LoadConfig
    \/ FetchCompany
    \/ FetchTables(RunTimeEntries, RunProjects, RunUsers)
    \/ FilterProjects
    \/ MergeTables
    \/ BuildReport
    \/ WriteCsv
    \/ WriteSummary
    \/ ExceptHandler

\* one whole run, from the configuration to the exit
Spec == Init /\ [][Next]_vars

----------------------------------------------------------------------------
(* The transformation of fetched tables into the report, lines 100-301,    *)
(* over larger families of tables: the state after three successful        *)
(* fetches, with exports/ present.                                         *)

Fetched(targets, TimeEntries, Projects, Users) ==
    /\ env \in [SUPABASE_URL : {TRUE}, SUPABASE_KEY : {TRUE},
                TARGET_PROJECTS : targets]
    /\ target_projects = Split(env.TARGET_PROJECTS)
    /\ exports_dir = TRUE
    /\ pc = "filter"
    /\ exit_code = NotExited
    /\ io = << >>
    /\ fetches = 4
    /\ company_id = [value |-> <<"c7">>, numpy |-> FALSE]
    /\ time_entries_df \in TimeEntries
    /\ projects_df \in Projects
    /\ users_df \in Users
    /\ projects_filtered = EmptyFrame
    /\ merged_df = EmptyFrame
    /\ grouped = EmptyFrame
    /\ dept_health = EmptyFrame
    /\ coerco = EmptyFrame
    /\ final_df = EmptyFrame
    /\ failed_check = ""

NextReport ==
    \/ FilterProjects
    \/ MergeTables
    \/ BuildReport
    \/ WriteCsv

\* filter and joins: every target list, project table and set of users,
\* every pair of foreign keys
InitJoin ==
    Fetched(TargetValues,
            TimeEntryTables({StoredDuration}, {1}),
            ProjectTables("title"),
            UserTables({NamedUsers}, Persons))

SpecJoin == InitJoin /\ [][NextReport]_vars

\* derivation, grouping and sorting: every user schema and person, every
\* time-entry schema, durations that differ or are null
InitReport ==
    Fetched({EmptyStr},
            TimeEntryTables({StoredDuration}, Minutes)
                \cup TimeEntryTables({StartEnd}, {1, NumNaN})
                \cup TimeEntryTables({NoDuration}, {1}),
            {p \in ProjectTables("title") :
                Len(p.rows) = 2 /\ p.rows[1]["title"] = DeptHealthTitle
                /\ p.rows[2]["title"] # DeptHealthTitle},
            {u \in UserTables(UserSchemas, Persons) : Len(u.rows) = 2})

SpecReport == InitReport /\ [][NextReport]_vars

----------------------------------------------------------------------------
(* What a run has left on disk *)

WrittenFiles ==
    {io[i].file : i \in {k \in 1..Len(io) : io[k].result # "raised"}}

CsvWritten == CsvFile \in WrittenFiles

\* the rows of the CSV this run wrote
CsvRows ==
    io[CHOOSE i \in 1..Len(io) : io[i].file = CsvFile /\ io[i].result = "written"]
        .content

IsSeparator(row) == row["project"] = SeparatorTitle

DataRows(rows) == SelectSeq(rows, LAMBDA r : ~IsSeparator(r))

RECURSIVE SumCells(_, _)
SumCells(rows, col) ==
    IF rows = << >> THEN 0 ELSE Head(rows)[col] + SumCells(Tail(rows), col)

RowsOf(rows, title) == SelectSeq(rows, LAMBDA r : r["project"] = title)

SeparatorPositions(rows) == {i \in 1..Len(rows) : IsSeparator(rows[i])}

----------------------------------------------------------------------------
(* Claims *)

\* C1: in a written CSV there is a separator row only when both the
\* Department of Health group and the Coerco group are non-empty, and then
\* exactly one, between the two groups; when either group is empty there is
\* no separator row.
C1_SeparatorOnlyBetweenGroups ==
    CsvWritten =>
        LET d == Len(RowsOf(CsvRows, DeptHealthTitle))
            c == Len(RowsOf(CsvRows, CoercoTitle))
        IN  IF d > 0 /\ c > 0
            THEN SeparatorPositions(CsvRows) = {d + 1}
            ELSE SeparatorPositions(CsvRows) = {}

\* C2, as stated: in a written CSV the total_entries of the rows other than
\* the separator add up to the number of rows of the joined table.
C2_EntriesSumToJoinedRows ==
    CsvWritten =>
        SumCells(DataRows(CsvRows), "total_entries") = Len(merged_df.rows)

\* a joined row that the report counts: its project is one of the two named
\* projects, its grouping keys are not null and its duration is not null
Counted(r) ==
    /\ r[project_title_col] \in {DeptHealthTitle, CoercoTitle}
    /\ r["user_name"] # None
    /\ Found(user_email_col) => r[user_email_col] # None
    /\ r["duration_minutes"] # NumNaN

\* C2, amended: in a written CSV the total_entries of the rows other than
\* the separator add up to the number of joined rows whose project is one of
\* the two named projects, whose user_name and (when the users table has an
\* email column) email are not null, and whose duration_minutes is not null.
C2_EntriesSumToCountedRows ==
    CsvWritten =>
        SumCells(DataRows(CsvRows), "total_entries")
            = Len(SelectSeq(merged_df.rows, Counted))

\* C2 witness: a CSV was written whose entries add up to a positive number
\* smaller than the number of joined rows.
C2_Witness ==
    /\ CsvWritten
    /\ SumCells(DataRows(CsvRows), "total_entries") > 0
    /\ SumCells(DataRows(CsvRows), "total_entries") < Len(merged_df.rows)

\* the joined rows aggregated into one CSV row
Feeding(row) ==
    SelectSeq(merged_df.rows,
              LAMBDA r : /\ r[project_title_col] = row["project"]
                         /\ r["user_name"] = row["user_name"]
                         /\ Found(user_email_col)
                                => r[user_email_col] = row["user_email"])

InTargets(title) ==
    NoTargets \/ \E i \in 1..Len(target_projects) : target_projects[i] = title

\* C3, as stated: every row of a written CSV other than the separator
\* aggregates the time entries of exactly one project and one user of the
\* joined data, and its project is in the requested target set.
C3_OneProjectUserPairPerRow ==
    CsvWritten =>
        \A i \in 1..Len(CsvRows) :
            ~IsSeparator(CsvRows[i]) =>
                /\ Feeding(CsvRows[i]) # << >>
                /\ \A a, b \in 1..Len(Feeding(CsvRows[i])) :
                      /\ Feeding(CsvRows[i])[a][time_project_id_col]
                            = Feeding(CsvRows[i])[b][time_project_id_col]
                      /\ Feeding(CsvRows[i])[a][time_user_id_col]
                            = Feeding(CsvRows[i])[b][time_user_id_col]
                /\ InTargets(CsvRows[i]["project"])

\* C3, amended: every row of a written CSV other than the separator carries
\* a (project title, user_name, user_email) combination that occurs in the
\* joined data, no two rows carry the same combination, and its project is
\* in the requested target set.
C3_OneTitleNamePerRow ==
    CsvWritten =>
        \A i \in 1..Len(CsvRows) :
            ~IsSeparator(CsvRows[i]) =>
                /\ Feeding(CsvRows[i]) # << >>
                /\ \A j \in 1..Len(CsvRows) :
                      (/\ ~IsSeparator(CsvRows[j])
                       /\ CsvRows[j]["project"] = CsvRows[i]["project"]
                       /\ CsvRows[j]["user_name"] = CsvRows[i]["user_name"]
                       /\ CsvRows[j]["user_email"] = CsvRows[i]["user_email"])
                          => j = i
                /\ InTargets(CsvRows[i]["project"])

\* C3 witness: targets were requested, a project outside them was fetched,
\* and the written CSV has a row fed by the entries of two users.
C3_Witness ==
    /\ CsvWritten
    /\ ~NoTargets
    /\ Len(projects_filtered.rows) < Len(projects_df.rows)
    /\ \E i \in 1..Len(CsvRows) :
          /\ ~IsSeparator(CsvRows[i])
          /\ \E a, b \in 1..Len(Feeding(CsvRows[i])) :
                Feeding(CsvRows[i])[a][time_user_id_col]
                    # Feeding(CsvRows[i])[b][time_user_id_col]

\* C7: in a written CSV, within the rows before the separator and within
\* the rows after it, total_hours does not increase from a row to the next.
C7_HoursNonIncreasing ==
    CsvWritten =>
        \A i \in 1..(Len(CsvRows) - 1) :
            (~IsSeparator(CsvRows[i]) /\ ~IsSeparator(CsvRows[i + 1]))
                => CsvRows[i]["total_hours"] >= CsvRows[i + 1]["total_hours"]

\* C7 witness: a written CSV has two rows of one group with different
\* total_hours that the group-by had produced in the other order.
C7_Witness ==
    /\ CsvWritten
    /\ \E i \in 1..(Len(CsvRows) - 1) :
          /\ ~IsSeparator(CsvRows[i]) /\ ~IsSeparator(CsvRows[i + 1])
          /\ CsvRows[i]["total_hours"] > CsvRows[i + 1]["total_hours"]
          /\ \E a, b \in 1..Len(grouped.rows) :
                /\ a < b
                /\ grouped.rows[b]["user_name"] = CsvRows[i]["user_name"]
                /\ grouped.rows[b]["project"] = CsvRows[i]["project"]
                /\ grouped.rows[a]["user_name"] = CsvRows[i + 1]["user_name"]
                /\ grouped.rows[a]["project"] = CsvRows[i + 1]["project"]

\* the columns of the users table whose name is, in any case, the given one
ColumnsNamed(df, name) == {c \in ColSet(df) : Lower(c) = Lower(name)}

NamesDerived == "user_name" \in ColSet(merged_df)

\* C8: when the users table has neither a first-name nor a last-name column
\* but has an email column, the user_name of every joined row is that row's
\* email and is not "Unknown User"; and a user_name is "Unknown User" only
\* when the name columns are not both present and there is no email column.
C8_EmailFallback ==
    NamesDerived =>
        /\ (/\ ColumnsNamed(users_df, "firstName") = {}
            /\ ColumnsNamed(users_df, "lastName") = {}
            /\ ColumnsNamed(users_df, "email") # {})
              => \A i \in 1..Len(merged_df.rows) :
                    /\ merged_df.rows[i]["user_name"] # UnknownUser
                    /\ \E c \in ColumnsNamed(users_df, "email") :
                          merged_df.rows[i]["user_name"] = merged_df.rows[i][c]
        /\ \A i \in 1..Len(merged_df.rows) :
              merged_df.rows[i]["user_name"] = UnknownUser
                  => /\ \/ ColumnsNamed(users_df, "firstName") = {}
                        \/ ColumnsNamed(users_df, "lastName") = {}
                     /\ ColumnsNamed(users_df, "email") = {}

\* C8 witness: the users table has an email column and no name column, and
\* a joined row has got its (non-null) email as user_name.
C8_Witness ==
    /\ NamesDerived
    /\ ColumnsNamed(users_df, "firstName") = {}
    /\ ColumnsNamed(users_df, "lastName") = {}
    /\ \E c \in ColumnsNamed(users_df, "email") :
          \E i \in 1..Len(merged_df.rows) :
              /\ merged_df.rows[i][c] # None
              /\ merged_df.rows[i]["user_name"] = merged_df.rows[i][c]

\* the time entries whose foreign key col is the id of a row of df
Matching(col, df) ==
    SelectSeq(time_entries_df.rows,
              LAMBDA e : \E i \in 1..Len(df.rows) : df.rows[i]["id"] = e[col])

\* C9: the joined table has at most as many rows as there are time entries,
\* as there are time entries whose project key is the id of a filtered
\* project, and as there are time entries whose user key is the id of a user.
C9_JoinedRowsBounded ==
    /\ Len(merged_df.rows) <= Len(time_entries_df.rows)
    /\ Len(merged_df.rows) <= Len(Matching("projectId", projects_filtered))
    /\ Len(merged_df.rows) <= Len(Matching("userId", users_df))

\* C9 witness: the joins kept a time entry and dropped another one, one
\* for its project key and one for its user key.
C9_Witness ==
    /\ Len(merged_df.rows) > 0
    /\ Len(merged_df.rows) < Len(Matching("projectId", projects_filtered))
    /\ Len(Matching("userId", users_df)) < Len(time_entries_df.rows)

\* C4: a run that a validation check ended has exit code 1, has written
\* exports/error.txt (with the company's name when the company was not
\* found), and has written neither the CSV nor the summary.
C4_ValidationFailureLeavesErrorFile ==
    (pc = "exited" /\ failed_check # "") =>
        /\ exit_code = 1
        /\ \E i \in 1..Len(io) :
              /\ io[i].file = ErrorFile
              /\ io[i].result = "written"
              /\ failed_check = "company"
                    => \E k \in 1..Len(io[i].content) :
                          io[i].content[k] = company_name
        /\ CsvFile \notin WrittenFiles
        /\ SummaryFile \notin WrittenFiles

\* C5: a run that found SUPABASE_URL or SUPABASE_KEY missing has exit code
\* 1, has made no fetch, and has written an error artifact.
C5_MissingConfigLeavesErrorFile ==
    (pc = "exited" /\ ~(env.SUPABASE_URL /\ env.SUPABASE_KEY)) =>
        /\ exit_code = 1
        /\ fetches = 0
        /\ ErrorFile \in WrittenFiles

\* C6: every file the run opens for writing under exports/ is opened after
\* the run has created the directory.
C6_DirectoryCreatedBeforeWrite ==
    \A i \in 1..Len(io) :
        io[i].op = "open_w" => \E j \in 1..(i - 1) : io[j].op = "makedirs"

\* C10: a run that ended with exit code 1 has not written the CSV, and a run
\* that has written exports/error.txt has not written the CSV.
C10_FailureLeavesNoCsv ==
    /\ exit_code = 1 => ~CsvWritten
    /\ ErrorFile \in WrittenFiles => ~CsvWritten

====
